---------------------------- MODULE Spec2Model ----------------------------
(***************************************************************************)
(* Model of src/src/cargo_cmd.rs: the four cargo output filters            *)
(* (filter_cargo_build, filter_cargo_test, filter_cargo_clippy,            *)
(* filter_cargo_install) and the command wrappers that run them            *)
(* (run_cargo_filtered, run_passthrough).                                  *)
(*                                                                         *)
(* Text representation.  A line is a sequence of tokens; a token is a      *)
(* string that is either one space " " or a chunk without spaces.  Every   *)
(* pattern the code tests (starts_with, contains, rfind, ...) falls on     *)
(* token boundaries of the lines used here, so the token-level operators   *)
(* below decide exactly what the byte-level Rust methods decide.  A text   *)
(* (a Rust String that may hold '\n') is a sequence of lines.  Three       *)
(* characters cannot be written in a TLA+ string and are spelled "'" for   *)
(* the backquote U+0060, "*" for the check mark U+2713 and "=" for the      *)
(* box-drawing U+2550.                                                     *)
(***************************************************************************)
EXTENDS Integers, Sequences, FiniteSets, TLC

(***************************************************************************)
(* Bounds of the model                                                     *)
(***************************************************************************)
\* longest input built freely from a subcommand's line alphabet
MaxLen == 3
\* largest number of repeated diagnostics / failures in a generated input
MaxRep == 17
\* largest rule map whose every iteration order is explored
MaxPerm == 3
\* longest input of the runs followed to the end of the process (WrapperSpec)
MaxWrapLen == 1

(***************************************************************************)
(* Program constants                                                       *)
(***************************************************************************)
MaxBlocks == 15
MaxFailures == 10
MaxRules == 15
MaxLocations == 3
BlankCloseMin == 3
TailLines == 5
SeparatorWidth == 39
FailureWidth == 200

(***************************************************************************)
(* str methods on lines                                                    *)
(***************************************************************************)
StartsWith(s, p) == Len(p) <= Len(s) /\ SubSeq(s, 1, Len(p)) = p

EndsWith(s, p) == Len(p) <= Len(s) /\ SubSeq(s, Len(s) - Len(p) + 1, Len(s)) = p

Contains(s, p) == \E i \in 1..(Len(s) + 1) : StartsWith(SubSeq(s, i, Len(s)), p)

\* a token contains the word "warning" ("warning", "warnings")
ContainsWarning(s) == \E i \in 1..Len(s) : s[i] \in {"warning", "warnings"}

IsBlank(s) == \A i \in 1..Len(s) : s[i] = " "

FirstNonSpace(s) ==
    IF IsBlank(s) THEN Len(s) + 1
    ELSE CHOOSE i \in 1..Len(s) : s[i] # " " /\ \A j \in 1..(i - 1) : s[j] = " "

LastNonSpace(s) ==
    IF IsBlank(s) THEN 0
    ELSE CHOOSE i \in 1..Len(s) : s[i] # " " /\ \A j \in (i + 1)..Len(s) : s[j] = " "

TrimStart(s) == SubSeq(s, FirstNonSpace(s), Len(s))

TrimEnd(s) == SubSeq(s, 1, LastNonSpace(s))

Trim(s) == TrimEnd(TrimStart(s))

\* str::rfind of a one-character token: 0 stands for None
RFind(s, c) ==
    IF \E i \in 1..Len(s) : s[i] = c
    THEN CHOOSE i \in 1..Len(s) : s[i] = c /\ \A j \in (i + 1)..Len(s) : s[j] # c
    ELSE 0

\* str::trim on a text: whitespace (spaces and newlines) goes at both ends
TrimText(t) ==
    IF \A i \in 1..Len(t) : IsBlank(t[i]) THEN << >>
    ELSE LET f == CHOOSE i \in 1..Len(t) :
                      ~IsBlank(t[i]) /\ \A j \in 1..(i - 1) : IsBlank(t[j])
             l == CHOOSE i \in 1..Len(t) :
                      ~IsBlank(t[i]) /\ \A j \in (i + 1)..Len(t) : IsBlank(t[j])
         IN  [i \in 1..(l - f + 1) |->
                 LET x == t[f + i - 1]
                     y == IF i = 1 THEN TrimStart(x) ELSE x
                 IN  IF i = l - f + 1 THEN TrimEnd(y) ELSE y]

\* format!("{}", n)
Num(n) == ToString(n)

RECURSIVE Flatten(_)
\* the lines of the texts of a list, in order (push_str of each text and '\n')
Flatten(ts) == IF ts = << >> THEN << >> ELSE Head(ts) \o Flatten(Tail(ts))

Take(s, n) == SubSeq(s, 1, IF Len(s) < n THEN Len(s) ELSE n)

\* a separator two characters wider
SeparatorWider == [i \in 1..(SeparatorWidth + 2) |-> "="]

Separator == [i \in 1..SeparatorWidth |-> "="]

(***************************************************************************)
(* Lines of cargo output                                                   *)
(***************************************************************************)
LBlank == << >>
LCompiling == <<" ", " ", " ", "Compiling", " ", "rtk", " ", "v0.5.0">>
LChecking == <<" ", " ", " ", " ", "Checking", " ", "rtk", " ", "v0.5.0">>
LDownloaded == <<" ", " ", "Downloaded", " ", "anyhow", " ", "v1.0.80">>
LFinished == <<" ", " ", " ", " ", "Finished", " ", "dev", " ", "target(s)">>
LLocking == <<" ", " ", "Locking", " ", "45", " ", "packages">>
LUpdating == <<" ", " ", "Updating", " ", "crates.io", " ", "index">>
LError == <<"error", "[", "E0308", "]", ":", " ", "mismatched", " ", "types">>
LWarning == <<"warning", ":", " ", "unused", " ", "import">>
LGenerated ==
    <<"warning", ":", " ", "'", "rtk", "'", " ", "generated", " ", "2", " ", "warnings">>
LAborting ==
    <<"error", ":", " ", "aborting", " ", "due", " ", "to", " ", "1", " ",
      "previous", " ", "error">>
LCouldNot ==
    <<"error", ":", " ", "could", " ", "not", " ", "compile", " ", "'", "rtk", "'">>
LArrow == <<" ", "-->", " ", "src/main.rs:10:5">>
LArrow2 == <<" ", "-->", " ", "src/git.rs:16:1">>
LBar == <<" ", " ", "|">>
LCode == <<"10", "|", " ", " ", " ", " ", " ", "hello">>

(***************************************************************************)
(* filter_cargo_build                                                      *)
(***************************************************************************)
BuildInit ==
    [errors |-> << >>, warnings |-> 0, error_count |-> 0, compiled |-> 0,
     in_error |-> FALSE, current_error |-> << >>]

\* the summary lines of rustc that end a run of diagnostics
IsAbortSummary(line) ==
    Contains(line, <<"aborting", " ", "due", " ", "to">>)
    \/ Contains(line, <<"could", " ", "not", " ", "compile">>)

IsGeneratedSummary(line) == Contains(line, <<"generated">>) /\ ContainsWarning(line)

IsErrorStart(line) == StartsWith(line, <<"error", "[">>) \/ StartsWith(line, <<"error", ":">>)

\* the shared tail of the loop body: a diagnostic starts
StartBlock(s, line) ==
    [s EXCEPT !.errors = IF s.in_error /\ s.current_error # << >>
                         THEN Append(s.errors, s.current_error) ELSE s.errors,
              !.in_error = TRUE,
              !.current_error = IF s.in_error /\ s.current_error # << >>
                                THEN <<line>> ELSE Append(s.current_error, line)]

\* ContinueBlock with the push of the closed block left out
ContinueBlockLosingBlock(s, line) ==
    IF IsBlank(line) /\ Len(s.current_error) > BlankCloseMin
    THEN [s EXCEPT !.current_error = << >>, !.in_error = FALSE]
    ELSE [s EXCEPT !.current_error = Append(s.current_error, line)]

\* ContinueBlock closing a block that holds 3 lines already (>= for >)
ContinueBlockClosingEarly(s, line) ==
    IF IsBlank(line) /\ Len(s.current_error) >= BlankCloseMin
    THEN [s EXCEPT !.errors = Append(s.errors, s.current_error),
                   !.current_error = << >>,
                   !.in_error = FALSE]
    ELSE [s EXCEPT !.current_error = Append(s.current_error, line)]

\* the shared tail of the loop body: a line read while a block is open
ContinueBlock(s, line) ==
    IF IsBlank(line) /\ Len(s.current_error) > BlankCloseMin
    THEN [s EXCEPT !.errors = Append(s.errors, s.current_error),
                   !.current_error = << >>,
                   !.in_error = FALSE]
    ELSE [s EXCEPT !.current_error = Append(s.current_error, line)]

\* BuildStep with the Downloading/Downloaded lines counted as compiled units
BuildStepCountingDownloads(s, line) ==
    IF StartsWith(TrimStart(line), <<"Compiling">>)
       \/ StartsWith(TrimStart(line), <<"Checking">>)
    THEN [s EXCEPT !.compiled = s.compiled + 1]
    ELSE IF StartsWith(TrimStart(line), <<"Downloading">>)
            \/ StartsWith(TrimStart(line), <<"Downloaded">>)
    THEN [s EXCEPT !.compiled = s.compiled + 1]
    ELSE IF StartsWith(TrimStart(line), <<"Finished">>)
    THEN s
    ELSE IF IsErrorStart(line)
    THEN IF IsAbortSummary(line) THEN s
         ELSE [StartBlock(s, line) EXCEPT !.error_count = s.error_count + 1]
    ELSE IF StartsWith(line, <<"warning", ":">>) /\ IsGeneratedSummary(line)
    THEN s
    ELSE IF StartsWith(line, <<"warning", ":">>) \/ StartsWith(line, <<"warning", "[">>)
    THEN [StartBlock(s, line) EXCEPT !.warnings = s.warnings + 1]
    ELSE IF s.in_error
    THEN ContinueBlock(s, line)
    ELSE s

\* one iteration of the loop of filter_cargo_build
BuildStep(s, line) ==
    IF StartsWith(TrimStart(line), <<"Compiling">>)
       \/ StartsWith(TrimStart(line), <<"Checking">>)
    THEN [s EXCEPT !.compiled = s.compiled + 1]
    ELSE IF StartsWith(TrimStart(line), <<"Downloading">>)
            \/ StartsWith(TrimStart(line), <<"Downloaded">>)
    THEN s
    ELSE IF StartsWith(TrimStart(line), <<"Finished">>)
    THEN s
    ELSE IF IsErrorStart(line)
    THEN IF IsAbortSummary(line) THEN s
         ELSE [StartBlock(s, line) EXCEPT !.error_count = s.error_count + 1]
    ELSE IF StartsWith(line, <<"warning", ":">>) /\ IsGeneratedSummary(line)
    THEN s
    ELSE IF StartsWith(line, <<"warning", ":">>) \/ StartsWith(line, <<"warning", "[">>)
    THEN [StartBlock(s, line) EXCEPT !.warnings = s.warnings + 1]
    ELSE IF s.in_error
    THEN ContinueBlock(s, line)
    ELSE s

\* the flush after the loop
FlushBlock(s) ==
    IF s.current_error # << >>
    THEN [s EXCEPT !.errors = Append(s.errors, s.current_error)]
    ELSE s

\* the block loop of the report: each block, a blank line after all but the last
RenderBlocks(errors) ==
    Flatten([i \in 1..Len(Take(errors, MaxBlocks)) |->
                IF i - 1 < Len(errors) - 1 THEN Append(errors[i], << >>) ELSE errors[i]])

\* MoreIssues with the trailer counting from the last rendered block
MoreIssuesOffByOne(errors) ==
    IF Len(errors) > MaxBlocks
    THEN << << >>,
            <<"...", " ", "+", Num(Len(errors) - MaxBlocks + 1), " ", "more", " ",
              "issues">> >>
    ELSE << >>

\* the trailer of the block list
MoreIssues(errors) ==
    IF Len(errors) > MaxBlocks
    THEN << << >>,
            <<"...", " ", "+", Num(Len(errors) - MaxBlocks), " ", "more", " ", "issues">> >>
    ELSE << >>

\* the rendering of filter_cargo_build, s being the state after the flush
BuildRender(s) ==
    IF s.error_count = 0 /\ s.warnings = 0
    THEN << <<"*", " ", "cargo", " ", "build", " ", "(", Num(s.compiled), " ",
              "crates", " ", "compiled", ")">> >>
    ELSE TrimText(
           << <<"cargo", " ", "build", ":", " ", Num(s.error_count), " ", "errors", ",",
                " ", Num(s.warnings), " ", "warnings", " ", "(", Num(s.compiled), " ",
                "crates", ")">>,
              Separator >>
           \o RenderBlocks(s.errors) \o MoreIssues(s.errors))

(***************************************************************************)
(* utils::truncate (crate::utils is not part of the sources at hand)       *)
(***************************************************************************)
RECURSIVE LineLen(_)
\* number of characters of a line
LineLen(l) == IF l = << >> THEN 0 ELSE Len(Head(l)) + LineLen(Tail(l))

RECURSIVE TextLen(_)
\* number of characters of a text, the '\n' between its lines included
TextLen(t) ==
    IF t = << >> THEN 0
    ELSE IF Len(t) = 1 THEN LineLen(t[1])
    ELSE LineLen(Head(t)) + 1 + TextLen(Tail(t))

RECURSIVE TakeToks(_, _)
\* the tokens of a line that lie wholly within its first n characters
TakeToks(l, n) ==
    IF l = << >> \/ Len(Head(l)) > n THEN << >>
    ELSE <<Head(l)>> \o TakeToks(Tail(l), n - Len(Head(l)))

RECURSIVE TakeChars(_, _)
\* the first n characters of a text (a token the cut falls into is dropped)
TakeChars(t, n) ==
    IF t = << >> THEN << >>
    ELSE IF LineLen(Head(t)) >= n \/ Len(t) = 1 THEN <<TakeToks(Head(t), n)>>
    ELSE <<Head(t)>> \o TakeChars(Tail(t), n - LineLen(Head(t)) - 1)

truncate(t, max) ==
    IF TextLen(t) <= max THEN t
    ELSE LET c == TakeChars(t, max - 3)
         IN  [c EXCEPT ![Len(c)] = Append(c[Len(c)], "...")]

(***************************************************************************)
(* Lines of cargo test output                                              *)
(***************************************************************************)
LRunning == <<"running", " ", "5", " ", "tests">>
LTestOk == <<"test", " ", "foo::test_a", " ", "...", " ", "ok">>
LTestFailed == <<"test", " ", "foo::test_b", " ", "...", " ", "FAILED">>
LFailuresHeader == <<"failures", ":">>
LStdout == <<"----", " ", "foo::test_b", " ", "stdout", " ", "----">>
LPanicked ==
    <<"thread", " ", "'foo::test_b'", " ", "panicked", " ", "at", " ",
      "'assert_eq!(1,", " ", "2)'">>
LFailedName == <<" ", " ", " ", " ", "foo::test_b">>
LResultOk ==
    <<"test", " ", "result", ":", " ", "ok.", " ", "15", " ", "passed;", " ", "0",
      " ", "failed">>
LResultFailed ==
    <<"test", " ", "result", ":", " ", "FAILED.", " ", "4", " ", "passed;", " ", "1",
      " ", "failed">>

(***************************************************************************)
(* filter_cargo_test                                                       *)
(***************************************************************************)
TestInit ==
    [failures |-> << >>, summary_lines |-> << >>, in_failure_section |-> FALSE,
     current_failure |-> << >>]

IsTestResult(line) == StartsWith(line, <<"test", " ", "result", ":">>)

\* FailureSection closing a block on every blank line
FailureSectionClosingEmpty(s, line) ==
    IF IsTestResult(line)
    THEN [s EXCEPT !.in_failure_section = FALSE,
                   !.summary_lines = Append(s.summary_lines, line)]
    ELSE IF StartsWith(line, <<" ", " ", " ", " ">>) \/ StartsWith(line, <<"----", " ">>)
    THEN [s EXCEPT !.current_failure = Append(s.current_failure, line)]
    ELSE IF IsBlank(line)
    THEN [s EXCEPT !.failures = Append(s.failures, s.current_failure),
                   !.current_failure = << >>]
    ELSE [s EXCEPT !.current_failure = Append(s.current_failure, line)]

\* the body of `if in_failure_section`
FailureSection(s, line) ==
    IF IsTestResult(line)
    THEN [s EXCEPT !.in_failure_section = FALSE,
                   !.summary_lines = Append(s.summary_lines, line)]
    ELSE IF StartsWith(line, <<" ", " ", " ", " ">>) \/ StartsWith(line, <<"----", " ">>)
    THEN [s EXCEPT !.current_failure = Append(s.current_failure, line)]
    ELSE IF IsBlank(line) /\ s.current_failure # << >>
    THEN [s EXCEPT !.failures = Append(s.failures, s.current_failure),
                   !.current_failure = << >>]
    ELSE IF ~IsBlank(line)
    THEN [s EXCEPT !.current_failure = Append(s.current_failure, line)]
    ELSE s

\* the `if !in_failure_section && line.starts_with("test result:")` that follows
CaptureResult(s, line) ==
    IF ~s.in_failure_section /\ IsTestResult(line)
    THEN [s EXCEPT !.summary_lines = Append(s.summary_lines, line)]
    ELSE s

\* one iteration of the loop of filter_cargo_test
TestStep(s, line) ==
    IF StartsWith(TrimStart(line), <<"Compiling">>)
       \/ StartsWith(TrimStart(line), <<"Downloading">>)
       \/ StartsWith(TrimStart(line), <<"Downloaded">>)
       \/ StartsWith(TrimStart(line), <<"Finished">>)
    THEN s
    ELSE IF StartsWith(line, <<"running", " ">>)
            \/ (StartsWith(line, <<"test", " ">>) /\ EndsWith(line, <<"...", " ", "ok">>))
    THEN s
    ELSE IF line = <<"failures", ":">>
    THEN [s EXCEPT !.in_failure_section = TRUE]
    ELSE CaptureResult(IF s.in_failure_section THEN FailureSection(s, line) ELSE s, line)

\* the flush after the loop
FlushFailure(s) ==
    IF s.current_failure # << >>
    THEN [s EXCEPT !.failures = Append(s.failures, s.current_failure)]
    ELSE s

\* format!("{}. {}\n", i + 1, truncate(failure, 200))
NumberedFailure(i, failure) ==
    LET t == truncate(failure, FailureWidth)
    IN  [t EXCEPT ![1] = <<Num(i), ".", " ">> \o t[1]]

RenderFailures(failures) ==
    IF failures = << >> THEN << >>
    ELSE << <<"FAILURES", " ", "(", Num(Len(failures)), ")", ":">>, Separator >>
         \o Flatten([i \in 1..Len(Take(failures, MaxFailures)) |->
                        NumberedFailure(i, failures[i])])
         \o (IF Len(failures) > MaxFailures
             THEN << << >>,
                     <<"...", " ", "+", Num(Len(failures) - MaxFailures), " ", "more",
                       " ", "failures">> >>
             ELSE << >>)
         \o << << >> >>

IsMeaningful(l) == ~IsBlank(l) /\ ~StartsWith(TrimStart(l), <<"Compiling">>)

RECURSIVE Meaningful(_)
\* output.lines().filter(..).collect()
Meaningful(t) ==
    IF t = << >> THEN << >>
    ELSE (IF IsMeaningful(Head(t)) THEN <<Head(t)>> ELSE << >>) \o Meaningful(Tail(t))

\* meaningful.iter().rev().take(5).rev()
LastLines(t, n) == SubSeq(t, IF Len(t) > n THEN Len(t) - n + 1 ELSE 1, Len(t))

\* the rendering of filter_cargo_test: s the state after the flush, output the input
TestRender(s, output) ==
    IF s.failures = << >> /\ s.summary_lines # << >>
    THEN TrimText([i \in 1..Len(s.summary_lines) |-> <<"*", " ">> \o s.summary_lines[i]])
    ELSE LET result == RenderFailures(s.failures) \o s.summary_lines
         IN  IF TrimText(result) = << >>
             THEN TrimText(result \o LastLines(Meaningful(output), TailLines))
             ELSE TrimText(result)

(***************************************************************************)
(* Lines of cargo clippy output                                            *)
(***************************************************************************)
LLintA ==
    <<"warning", ":", " ", "unused", " ", "variable", " ", "[", "unused_variables", "]">>
LLintB ==
    <<"warning", ":", " ", "too", " ", "many", " ", "arguments", " ", "[",
      "clippy::too_many_arguments", "]">>
LLintError ==
    <<"error", ":", " ", "approximate", " ", "value", " ", "[",
      "clippy::approx_constant", "]">>
\* rustc's parse error about a closing bracket found before an opening one
LBrackets ==
    <<"error", ":", " ", "expected", " ", "'", "]", "'", ",", " ", "found", " ", "'",
      "[", "'">>
\* rustc's parse error about a bracket that is never closed
LUnclosed == <<"error", ":", " ", "unclosed", " ", "delimiter", " ", "'", "[", "'">>
\* the i-th of a family of lint diagnostics with pairwise different rules
LLint(i) == <<"warning", ":", " ", "lint", " ", "[", "clippy::r" \o ToString(i), "]">>

(***************************************************************************)
(* filter_cargo_clippy                                                     *)
(***************************************************************************)
\* by_rule: the entries of the HashMap, kept here in order of first insertion;
\* the order in which the map is iterated is chosen in ClippyRender
ClippyInit ==
    [by_rule |-> << >>, error_count |-> 0, warning_count |-> 0, current_rule |-> << >>]

IsDiagnosticStart(line) ==
    (StartsWith(line, <<"warning", ":">>) \/ StartsWith(line, <<"warning", "[">>))
    \/ (StartsWith(line, <<"error", ":">>) \/ StartsWith(line, <<"error", "[">>))

\* line[bracket_start + 1..bracket_end] has begin > end: the slice panics
SlicePanics(line) ==
    RFind(line, "[") # 0 /\ RFind(line, "]") # 0 /\ RFind(line, "]") < RFind(line, "[")

StripPrefix(line, p) == IF StartsWith(line, p) THEN SubSeq(line, Len(p) + 1, Len(line)) ELSE line

\* the rule name of a diagnostic-start line (SlicePanics(line) being false)
ExtractRule(line) ==
    IF RFind(line, "[") # 0
    THEN IF RFind(line, "]") # 0
         THEN SubSeq(line, RFind(line, "[") + 1, RFind(line, "]") - 1)
         ELSE line
    ELSE StripPrefix(line, IF StartsWith(line, <<"error">>)
                           THEN <<"error", ":", " ">> ELSE <<"warning", ":", " ">>)

RECURSIVE TrimStartMatches(_, _)
TrimStartMatches(l, p) ==
    IF StartsWith(l, p) THEN TrimStartMatches(SubSeq(l, Len(p) + 1, Len(l)), p) ELSE l

\* by_rule.entry(rule).or_default().push(location)
PushLocation(by_rule, rule, location) ==
    IF \E i \in 1..Len(by_rule) : by_rule[i].rule = rule
    THEN [i \in 1..Len(by_rule) |->
             IF by_rule[i].rule = rule
             THEN [by_rule[i] EXCEPT !.locations = Append(@, location)]
             ELSE by_rule[i]]
    ELSE Append(by_rule, [rule |-> rule, locations |-> <<location>>])

\* the scanner panics on this line
ClippyPanics(line) ==
    /\ ~(StartsWith(TrimStart(line), <<"Compiling">>)
         \/ StartsWith(TrimStart(line), <<"Checking">>)
         \/ StartsWith(TrimStart(line), <<"Downloading">>)
         \/ StartsWith(TrimStart(line), <<"Downloaded">>)
         \/ StartsWith(TrimStart(line), <<"Finished">>))
    /\ IsDiagnosticStart(line)
    /\ ~IsGeneratedSummary(line)
    /\ ~IsAbortSummary(line)
    /\ SlicePanics(line)

\* one iteration of the loop of filter_cargo_clippy (ClippyPanics(line) being false)
ClippyStep(s, line) ==
    IF StartsWith(TrimStart(line), <<"Compiling">>)
       \/ StartsWith(TrimStart(line), <<"Checking">>)
       \/ StartsWith(TrimStart(line), <<"Downloading">>)
       \/ StartsWith(TrimStart(line), <<"Downloaded">>)
       \/ StartsWith(TrimStart(line), <<"Finished">>)
    THEN s
    ELSE IF IsDiagnosticStart(line)
    THEN IF IsGeneratedSummary(line) THEN s
         ELSE IF IsAbortSummary(line) THEN s
         ELSE [s EXCEPT !.error_count = IF StartsWith(line, <<"error">>) THEN @ + 1 ELSE @,
                        !.warning_count = IF StartsWith(line, <<"error">>) THEN @ ELSE @ + 1,
                        !.current_rule = ExtractRule(line)]
    ELSE IF StartsWith(TrimStart(line), <<"-->", " ">>)
    THEN IF s.current_rule # << >>
         THEN [s EXCEPT !.by_rule =
                   PushLocation(@, s.current_rule,
                                TrimStartMatches(TrimStart(line), <<"-->", " ">>))]
         ELSE s
    ELSE s

RECURSIVE SortAscending(_)
\* SortByCount with the comparison the other way round (a.cmp(b))
SortAscending(rs) ==
    IF rs = << >> THEN << >>
    ELSE LET sorted == SortAscending(SubSeq(rs, 1, Len(rs) - 1))
             x == rs[Len(rs)]
             k == Cardinality({i \in 1..Len(sorted) :
                                  Len(sorted[i].locations) <= Len(x.locations)})
         IN  SubSeq(sorted, 1, k) \o <<x>> \o SubSeq(sorted, k + 1, Len(sorted))

RECURSIVE SortByCount(_)
\* rule_counts.sort_by(|a, b| b.1.len().cmp(&a.1.len())): a stable sort, by
\* descending number of locations
SortByCount(rs) ==
    IF rs = << >> THEN << >>
    ELSE LET sorted == SortByCount(SubSeq(rs, 1, Len(rs) - 1))
             x == rs[Len(rs)]
             k == Cardinality({i \in 1..Len(sorted) :
                                  Len(sorted[i].locations) >= Len(x.locations)})
         IN  SubSeq(sorted, 1, k) \o <<x>> \o SubSeq(sorted, k + 1, Len(sorted))

\* the lines of one rule of the report
RenderRule(r) ==
    << <<" ", " ">> \o r.rule \o <<" ", "(", Num(Len(r.locations)), "x)">> >>
    \o [i \in 1..Len(Take(r.locations, MaxLocations)) |->
           <<" ", " ", " ", " ">> \o r.locations[i]]
    \o (IF Len(r.locations) > MaxLocations
        THEN << <<" ", " ", " ", " ", "...", " ", "+",
                  Num(Len(r.locations) - MaxLocations), " ", "more">> >>
        ELSE << >>)

\* the rendering of filter_cargo_clippy; order is the order in which
\* by_rule.iter() yields the entries, a permutation of their indices
ClippyRender(s, order) ==
    IF s.error_count = 0 /\ s.warning_count = 0
    THEN << <<"*", " ", "cargo", " ", "clippy", ":", " ", "No", " ", "issues", " ",
              "found">> >>
    ELSE LET rule_counts == SortByCount([i \in 1..Len(s.by_rule) |-> s.by_rule[order[i]]])
         IN  TrimText(
               << <<"cargo", " ", "clippy", ":", " ", Num(s.error_count), " ", "errors",
                    ",", " ", Num(s.warning_count), " ", "warnings">>,
                  Separator >>
               \o Flatten([i \in 1..Len(Take(rule_counts, MaxRules)) |->
                              RenderRule(rule_counts[i])])
               \o (IF Len(s.by_rule) > MaxRules
                   THEN << << >>,
                           <<"...", " ", "+", Num(Len(s.by_rule) - MaxRules), " ", "more",
                             " ", "rules">> >>
                   ELSE << >>))

\* the orders in which a HashMap of n entries may be iterated: every order of a
\* small map, the rotations of the insertion order and of its reverse otherwise
IterOrders(n) ==
    IF n <= MaxPerm
    THEN {p \in [1..n -> 1..n] : \A i, j \in 1..n : i # j => p[i] # p[j]}
    ELSE {[i \in 1..n |-> ((i - 1 + k) % n) + 1] : k \in 0..(n - 1)}
         \cup {[i \in 1..n |-> ((n - i + k) % n) + 1] : k \in 0..(n - 1)}

(***************************************************************************)
(* Lines of cargo install output                                           *)
(***************************************************************************)
LInstalling == <<" ", " ", "Installing", " ", "rtk", " ", "v0.11.0">>
LInstallingName == <<" ", " ", "Installing", " ", "ripgrep">>
LInstallingPath == <<" ", " ", "Installing", " ", "/", "Users/user/projects/rtk">>
LInstalled ==
    <<" ", " ", " ", "Installed", " ", "package", " ", "'", "rtk", " ", "v0.9.4", "'">>
LReplacing == <<" ", " ", "Replacing", " ", "/", "Users/user/.cargo/bin/rtk">>
LReplaced ==
    <<" ", " ", " ", "Replaced", " ", "package", " ", "'", "rtk", " ", "v0.9.4", "'",
      " ", "with", " ", "'", "rtk", " ", "v0.11.0", "'">>
LIgnored ==
    <<" ", " ", "Ignored", " ", "package", " ", "'", "rtk", " ", "v0.11.0", "'", ",",
      " ", "is", " ", "already", " ", "installed">>
LPathWarning ==
    <<"warning", ":", " ", "be", " ", "sure", " ", "to", " ", "add", " ", "'",
      "/", "Users/user/.cargo/bin", "'", " ", "to", " ", "your", " ", "PATH">>
LBlocking ==
    <<" ", " ", "Blocking", " ", "waiting", " ", "for", " ", "file", " ", "lock", " ",
      "on", " ", "package", " ", "cache">>

(***************************************************************************)
(* filter_cargo_install                                                    *)
(***************************************************************************)
format_crate_info(name, version, fallback) ==
    IF name = << >> THEN fallback
    ELSE IF version = << >> THEN name
    ELSE name \o <<" ">> \o version

InstallInit ==
    [errors |-> << >>, error_count |-> 0, compiled |-> 0, in_error |-> FALSE,
     current_error |-> << >>, installed_crate |-> << >>, installed_version |-> << >>,
     replaced_lines |-> << >>, already_installed |-> FALSE, ignored_line |-> << >>]

\* index of the first token c of s, 0 when there is none
Find(s, c) ==
    IF \E i \in 1..Len(s) : s[i] = c
    THEN CHOOSE i \in 1..Len(s) : s[i] = c /\ \A j \in 1..(i - 1) : s[j] # c
    ELSE 0

\* the maximal runs of v without a space, in order; a run starts at a token
\* that is not a space and follows a space or nothing
Runs(v) ==
    LET starts == {i \in 1..Len(v) : v[i] # " " /\ (i = 1 \/ v[i - 1] = " ")}
        Start(k) == CHOOSE i \in starts : Cardinality({j \in starts : j < i}) = k - 1
        End(i) == CHOOSE e \in i..Len(v) :
                      /\ \A m \in i..e : v[m] # " "
                      /\ e = Len(v) \/ v[e + 1] = " "
    IN  [k \in 1..Cardinality(starts) |-> SubSeq(v, Start(k), End(Start(k)))]

\* str::split_whitespace (s is computed once, then split)
SplitWhitespace(s) == CHOOSE parts \in {Runs(v) : v \in {s}} : TRUE

\* the `Installing` branch
OnInstalling(s, trimmed) ==
    LET rest == Trim(StripPrefix(trimmed, <<"Installing">>))
    IN  IF rest # << >> /\ ~StartsWith(rest, <<"/">>)
        THEN IF Find(rest, " ") # 0
             THEN [s EXCEPT !.installed_crate = SubSeq(rest, 1, Find(rest, " ") - 1),
                            !.installed_version =
                                SubSeq(rest, Find(rest, " ") + 1, Len(rest))]
             ELSE [s EXCEPT !.installed_crate = rest]
        ELSE s

\* the `Installed` branch
OnInstalled(s, trimmed) ==
    LET rest == Trim(StripPrefix(trimmed, <<"Installed">>))
        parts == SplitWhitespace(rest)
    IN  IF rest # << >> /\ s.installed_crate = << >> /\ Len(parts) >= 2
        THEN [s EXCEPT !.installed_crate = parts[1], !.installed_version = parts[2]]
        ELSE s

\* InstallStep without the Locking lines among the discarded ones
InstallStepKeepingLocking(s, line) ==
    LET trimmed == TrimStart(line)
    IN  IF StartsWith(trimmed, <<"Compiling">>)
        THEN [s EXCEPT !.compiled = @ + 1]
        ELSE IF StartsWith(trimmed, <<"Downloading">>)
                \/ StartsWith(trimmed, <<"Downloaded">>)
                \/ StartsWith(trimmed, <<"Updating">>)
                \/ StartsWith(trimmed, <<"Adding">>)
                \/ StartsWith(trimmed, <<"Finished">>)
                \/ StartsWith(trimmed,
                              <<"Blocking", " ", "waiting", " ", "for", " ", "file", " ",
                                "lock">>)
        THEN s
        ELSE IF StartsWith(trimmed, <<"Installing">>)
        THEN OnInstalling(s, trimmed)
        ELSE IF StartsWith(trimmed, <<"Installed">>)
        THEN OnInstalled(s, trimmed)
        ELSE IF StartsWith(trimmed, <<"Replacing">>) \/ StartsWith(trimmed, <<"Replaced">>)
        THEN [s EXCEPT !.replaced_lines = Append(@, trimmed)]
        ELSE IF StartsWith(trimmed, <<"Ignored", " ", "package">>)
        THEN [s EXCEPT !.already_installed = TRUE, !.ignored_line = trimmed]
        ELSE IF StartsWith(line, <<"warning", ":">>)
        THEN IF ~IsGeneratedSummary(line)
             THEN [s EXCEPT !.replaced_lines = Append(@, line)]
             ELSE s
        ELSE IF IsErrorStart(line)
        THEN IF IsAbortSummary(line) THEN s
             ELSE [StartBlock(s, line) EXCEPT !.error_count = s.error_count + 1]
        ELSE IF s.in_error
        THEN ContinueBlock(s, line)
        ELSE s

\* one iteration of the loop of filter_cargo_install
InstallStep(s, line) ==
    LET trimmed == TrimStart(line)
    IN  IF StartsWith(trimmed, <<"Compiling">>)
        THEN [s EXCEPT !.compiled = @ + 1]
        ELSE IF StartsWith(trimmed, <<"Downloading">>)
                \/ StartsWith(trimmed, <<"Downloaded">>)
                \/ StartsWith(trimmed, <<"Locking">>)
                \/ StartsWith(trimmed, <<"Updating">>)
                \/ StartsWith(trimmed, <<"Adding">>)
                \/ StartsWith(trimmed, <<"Finished">>)
                \/ StartsWith(trimmed,
                              <<"Blocking", " ", "waiting", " ", "for", " ", "file", " ",
                                "lock">>)
        THEN s
        ELSE IF StartsWith(trimmed, <<"Installing">>)
        THEN OnInstalling(s, trimmed)
        ELSE IF StartsWith(trimmed, <<"Installed">>)
        THEN OnInstalled(s, trimmed)
        ELSE IF StartsWith(trimmed, <<"Replacing">>) \/ StartsWith(trimmed, <<"Replaced">>)
        THEN [s EXCEPT !.replaced_lines = Append(@, trimmed)]
        ELSE IF StartsWith(trimmed, <<"Ignored", " ", "package">>)
        THEN [s EXCEPT !.already_installed = TRUE, !.ignored_line = trimmed]
        ELSE IF StartsWith(line, <<"warning", ":">>)
        THEN IF ~IsGeneratedSummary(line)
             THEN [s EXCEPT !.replaced_lines = Append(@, line)]
             ELSE s
        ELSE IF IsErrorStart(line)
        THEN IF IsAbortSummary(line) THEN s
             ELSE [StartBlock(s, line) EXCEPT !.error_count = s.error_count + 1]
        ELSE IF s.in_error
        THEN ContinueBlock(s, line)
        ELSE s

\* ignored_line.split('`').nth(1).unwrap_or(&ignored_line)
BackquotedInfo(l) ==
    IF Find(l, "'") = 0 THEN l
    ELSE LET rest == SubSeq(l, Find(l, "'") + 1, Len(l))
         IN  IF Find(rest, "'") = 0 THEN rest ELSE SubSeq(rest, 1, Find(rest, "'") - 1)

\* InstallRender with the error report resolved before the ignored package
InstallRenderErrorsFirst(s) ==
    IF s.error_count > 0
    THEN LET crate_info == format_crate_info(s.installed_crate, s.installed_version, << >>)
             deps_info == IF s.compiled > 0
                          THEN <<",", " ", Num(s.compiled), " ", "deps", " ", "compiled">>
                          ELSE << >>
             head == <<"cargo", " ", "install", ":", " ", Num(s.error_count), " ">>
                     \o (IF s.error_count > 1 THEN <<"errors">> ELSE <<"error">>)
         IN  TrimText(
               << IF crate_info = << >> THEN head \o deps_info
                  ELSE head \o <<" ", "(">> \o crate_info \o deps_info \o <<")">>,
                  Separator >>
               \o RenderBlocks(s.errors) \o MoreIssues(s.errors))
    ELSE IF s.already_installed
    THEN << <<"*", " ", "cargo", " ", "install", ":", " ">> \o BackquotedInfo(s.ignored_line)
            \o <<" ", "already", " ", "installed">> >>
    ELSE << <<"*", " ", "cargo", " ", "install", " ", "(">>
            \o format_crate_info(s.installed_crate, s.installed_version, <<"package">>)
            \o <<",", " ", Num(s.compiled), " ", "deps", " ", "compiled", ")">> >>
         \o [i \in 1..Len(s.replaced_lines) |-> <<" ", " ">> \o s.replaced_lines[i]]

\* the rendering of filter_cargo_install, s being the state after the flush
InstallRender(s) ==
    IF s.already_installed
    THEN << <<"*", " ", "cargo", " ", "install", ":", " ">> \o BackquotedInfo(s.ignored_line)
            \o <<" ", "already", " ", "installed">> >>
    ELSE IF s.error_count > 0
    THEN LET crate_info == format_crate_info(s.installed_crate, s.installed_version, << >>)
             deps_info == IF s.compiled > 0
                          THEN <<",", " ", Num(s.compiled), " ", "deps", " ", "compiled">>
                          ELSE << >>
             head == <<"cargo", " ", "install", ":", " ", Num(s.error_count), " ">>
                     \o (IF s.error_count > 1 THEN <<"errors">> ELSE <<"error">>)
         IN  TrimText(
               << IF crate_info = << >> THEN head \o deps_info
                  ELSE head \o <<" ", "(">> \o crate_info \o deps_info \o <<")">>,
                  Separator >>
               \o RenderBlocks(s.errors) \o MoreIssues(s.errors))
    ELSE << <<"*", " ", "cargo", " ", "install", " ", "(">>
            \o format_crate_info(s.installed_crate, s.installed_version, <<"package">>)
            \o <<",", " ", Num(s.compiled), " ", "deps", " ", "compiled", ")">> >>
         \o [i \in 1..Len(s.replaced_lines) |-> <<" ", " ">> \o s.replaced_lines[i]]

(***************************************************************************)
(* Inputs: every text of at most MaxLen lines over the subcommand's line   *)
(* alphabet, the inputs of the repository's own tests, and generated       *)
(* inputs long enough to pass the truncation caps                          *)
(***************************************************************************)
Texts(alphabet) == UNION {[1..n -> alphabet] : n \in 0..MaxLen}

RECURSIVE Repeat(_, _)
Repeat(unit, n) == IF n = 0 THEN << >> ELSE unit \o Repeat(unit, n - 1)

RepCounts == (MaxRep - 3)..MaxRep

BuildAlphabet ==
    {LBlank, LCompiling, LLocking, LError, LWarning, LGenerated, LAborting, LArrow}

\* tests::test_filter_cargo_build_success
BuildSuccessInput == <<LCompiling, LCompiling, LCompiling, LFinished>>

\* tests::test_filter_cargo_build_errors, tests::test_filter_cargo_install_error
ErrorBlock == <<LError, LArrow, LBar, LCode, LBar, LBlank>>

BuildErrorsInput == <<LCompiling>> \o ErrorBlock \o <<LAborting>>

BuildInputs ==
    Texts(BuildAlphabet)
    \cup {BuildSuccessInput, BuildErrorsInput,
          <<LError, LArrow, LBlank, LBlank, LCode, LBlank, LArrow>>,
          <<LUpdating, LDownloaded, LDownloaded>> \o BuildSuccessInput,
          <<LUpdating, LChecking>> \o ErrorBlock \o <<LWarning, LArrow, LBlank, LGenerated>>}
    \cup {Repeat(u, n) : u \in {<<LError>>, <<LWarning, LArrow>>, ErrorBlock}, n \in RepCounts}

\* a "failures:" header printed with an indentation (nested test output)
LIndentedFailures == <<" ", " ", "failures", ":">>

TestAlphabet ==
    {LBlank, LCompiling, LFinished, LTestOk, LTestFailed, LFailuresHeader,
     LIndentedFailures, LStdout, LPanicked, LFailedName, LResultOk, LResultFailed,
     LCouldNot}

\* tests::test_filter_cargo_test_all_pass
TestAllPassInput ==
    <<LCompiling, LFinished, <<" ", " ", " ", "Running", " ", "target/debug/deps/rtk">>,
      LBlank, LRunning, LTestOk, LTestOk, LTestOk, LBlank, LResultOk>>

\* tests::test_filter_cargo_test_failures
TestFailuresInput ==
    <<LRunning, LTestOk, LTestFailed, LTestOk, LBlank, LFailuresHeader, LBlank, LStdout,
      LPanicked, LBlank, LFailuresHeader, LFailedName, LBlank, LResultFailed>>

TestInputs ==
    Texts(TestAlphabet)
    \cup {TestAllPassInput, TestFailuresInput,
          <<LFailuresHeader, LStdout, LPanicked, LBlank, LBlank, LResultFailed>>,
          <<LFailuresHeader, LBlank, LStdout>> \o Repeat(<<LPanicked>>, 5)
              \o <<LBlank, LResultFailed>>}
    \cup {<<LFailuresHeader, LBlank>> \o Repeat(<<LStdout, LPanicked, LBlank>>, n)
              \o <<LResultFailed>> : n \in (MaxRep - 8)..MaxRep}

ClippyAlphabet ==
    {LChecking, LLintA, LLintB, LLintError, LWarning, LBrackets, LUnclosed, LArrow,
     LArrow2, LGenerated}

\* tests::test_filter_cargo_clippy_warnings
ClippyWarningsInput ==
    <<LChecking, LLintA, LArrow, LBar, LCode, LBar, LBlank, LLintB, LArrow2, LBar, LCode,
      LBar, LBlank, LGenerated, LFinished>>

\* tests::test_filter_cargo_clippy_clean
ClippyCleanInput == <<LChecking, LFinished>>

\* n diagnostics of n different rules, one location each
ManyRules(n) == Flatten([i \in 1..n |-> <<LLint(i), LArrow>>])

ClippyInputs ==
    Texts(ClippyAlphabet)
    \cup {ClippyWarningsInput, ClippyCleanInput}
    \cup UNION {{ManyRules(n) \o extra :
                     extra \in {<< >>, <<LLint(n), LArrow2>>,
                                <<LLint(1), LArrow2, LArrow>>}} : n \in 1..MaxRep}

InstallAlphabet ==
    {LBlank, LCompiling, LLocking, LInstalling, LInstallingName, LInstallingPath,
     LInstalled, LReplaced, LIgnored, LPathWarning, LGenerated, LError, LAborting, LArrow}

\* tests::test_filter_cargo_install_success
InstallSuccessInput ==
    <<LInstalling, <<" ", " ", "Downloading", " ", "crates", " ", "...">>, LDownloaded,
      LDownloaded, LCompiling, LCompiling, LCompiling, LCompiling, LCompiling, LFinished,
      LReplacing, LReplaced>>

\* tests::test_filter_cargo_install_error
InstallErrorInput == <<LInstalling, LCompiling>> \o ErrorBlock \o <<LAborting>>

\* tests::test_filter_cargo_install_locking_and_blocking
InstallLockingInput ==
    <<LLocking, LBlocking, LDownloaded, LCompiling, LCompiling, LFinished, LInstalling>>

InstallInputs ==
    Texts(InstallAlphabet)
    \cup {InstallSuccessInput, InstallErrorInput, InstallLockingInput,
          InstallErrorInput \o <<LIgnored>>}
    \cup {Repeat(u, n) : u \in {<<LError>>, ErrorBlock}, n \in RepCounts}

Subcommands == {"build", "check", "test", "clippy", "install"}

\* a cargo subcommand without a filter, run by run_passthrough
Passthrough == "passthrough"

\* ExitStatus of the child: an exit code, or no code when a signal ended it
NoCode == -1
\* Command::output / Command::status returned Err: cargo could not be run
SpawnError == -2
\* the statuses a child is run with: success, cargo's failure code, a signal
ChildStatuses == {0, 101, NoCode}
\* exit code of a process ended by a panic of its main thread
PanicCode == 101
\* value of exit_code while the process has not ended
NotEnded == -1

Inputs(cmd) ==
    CASE cmd \in {"build", "check"} -> BuildInputs
      [] cmd = "test" -> TestInputs
      [] cmd = "clippy" -> ClippyInputs
      [] cmd = "install" -> InstallInputs

InitState(cmd) ==
    CASE cmd \in {"build", "check"} -> BuildInit
      [] cmd = "test" -> TestInit
      [] cmd = "clippy" -> ClippyInit
      [] cmd = "install" -> InstallInit
      [] cmd = Passthrough -> << >>

(***************************************************************************)
(* The state machine: one filter call                                      *)
(*   subcommand  the cargo subcommand whose filter runs (run, l.17-25)      *)
(*   output      the captured text handed to the filter, as its lines       *)
(*   pos         the line the `for line in output.lines()` loop reads next  *)
(*   st          the filter's local variables                               *)
(*   result      the String the filter returns                              *)
(*   pc          "scan" in the loop, "done" after the return, "panicked"    *)
(*               when the filter aborted                                    *)
(***************************************************************************)
\* subcommand, output, status: the cargo subcommand, the text captured from
\*   the child (raw) and the child's exit status
\* pos, st, result: the filter's position in output.lines(), its locals and
\*   the String it returns
\* stdout: the texts printed by println!; tracked: the tracking entries
\* exit_code: the code the process ended with
\* pc: "scan" (the filter is reading), "done" (it returned), "printed",
\*   "tracked", "ran" (passthrough child finished), "spawn_error", and the
\*   ends "returned" (Ok), "exited" (process::exit), "failed" (Err),
\*   "panicked"
VARIABLES subcommand, output, status, pos, st, result, stdout, tracked, exit_code, pc

vars == <<subcommand, output, status, pos, st, result, stdout, tracked, exit_code, pc>>

\* the state when Command::output (Command::status for a passthrough) has
\* returned, the captured text being one of captured[subcommand]
InitOver(captured) ==
    /\ subcommand \in Subcommands \cup {Passthrough}
    /\ status \in ChildStatuses \cup {SpawnError}
    /\ output \in IF status = SpawnError \/ subcommand = Passthrough
                  THEN {<< >>} ELSE captured[subcommand]
    /\ pos = 1
    /\ st = InitState(subcommand)
    /\ result = << >>
    /\ stdout = << >>
    /\ tracked = << >>
    /\ exit_code = NotEnded
    /\ pc = IF status = SpawnError THEN "spawn_error"
            ELSE IF subcommand = Passthrough THEN "ran" ELSE "scan"

Init == InitOver([cmd \in Subcommands |-> Inputs(cmd)])

\* the inputs of at most MaxWrapLen lines
ShortInputs(cmd) == {t \in Inputs(cmd) : Len(t) <= MaxWrapLen}

WrapperInit == InitOver([cmd \in Subcommands |-> ShortInputs(cmd)])

\* filter_cargo_build: one iteration of `for line in output.lines()`
BuildLine ==
    /\ pc = "scan"
    /\ subcommand \in {"build", "check"}
    /\ pos <= Len(output)
    /\ st' = BuildStep(st, output[pos])
    /\ pos' = pos + 1
    /\ UNCHANGED <<subcommand, output, status, stdout, tracked, exit_code, result, pc>>

\* filter_cargo_build: the flush after the loop, the rendering and the return
BuildReturn ==
    /\ pc = "scan"
    /\ subcommand \in {"build", "check"}
    /\ pos > Len(output)
    /\ st' = FlushBlock(st)
    /\ result' = BuildRender(FlushBlock(st))
    /\ pc' = "done"
    /\ UNCHANGED <<subcommand, output, status, stdout, tracked, exit_code, pos>>

\* filter_cargo_test: one iteration of `for line in output.lines()`
TestLine ==
    /\ pc = "scan"
    /\ subcommand = "test"
    /\ pos <= Len(output)
    /\ st' = TestStep(st, output[pos])
    /\ pos' = pos + 1
    /\ UNCHANGED <<subcommand, output, status, stdout, tracked, exit_code, result, pc>>

\* filter_cargo_test: the flush after the loop, the rendering and the return
TestReturn ==
    /\ pc = "scan"
    /\ subcommand = "test"
    /\ pos > Len(output)
    /\ st' = FlushFailure(st)
    /\ result' = TestRender(FlushFailure(st), output)
    /\ pc' = "done"
    /\ UNCHANGED <<subcommand, output, status, stdout, tracked, exit_code, pos>>

\* filter_cargo_clippy: one iteration of `for line in output.lines()`
ClippyLine ==
    /\ pc = "scan"
    /\ subcommand = "clippy"
    /\ pos <= Len(output)
    /\ ~ClippyPanics(output[pos])
    /\ st' = ClippyStep(st, output[pos])
    /\ pos' = pos + 1
    /\ UNCHANGED <<subcommand, output, status, stdout, tracked, exit_code, result, pc>>

\* filter_cargo_clippy: the slice of the rule name panics; the panic unwinds
\* through run_cargo_filtered and ends the process
ClippyPanic ==
    /\ pc = "scan"
    /\ subcommand = "clippy"
    /\ pos <= Len(output)
    /\ ClippyPanics(output[pos])
    /\ pc' = "panicked"
    /\ exit_code' = PanicCode
    /\ UNCHANGED <<subcommand, output, status, stdout, tracked, pos, st, result>>

\* filter_cargo_clippy: the rendering and the return; the map is iterated in
\* one of the orders a HashMap may yield
ClippyReturn ==
    /\ pc = "scan"
    /\ subcommand = "clippy"
    /\ pos > Len(output)
    /\ \E order \in IterOrders(Len(st.by_rule)) : result' = ClippyRender(st, order)
    /\ pc' = "done"
    /\ UNCHANGED <<subcommand, output, status, stdout, tracked, exit_code, pos, st>>

\* filter_cargo_install: one iteration of `for line in output.lines()`
InstallLine ==
    /\ pc = "scan"
    /\ subcommand = "install"
    /\ pos <= Len(output)
    /\ st' = InstallStep(st, output[pos])
    /\ pos' = pos + 1
    /\ UNCHANGED <<subcommand, output, status, stdout, tracked, exit_code, result, pc>>

\* filter_cargo_install: the flush after the loop, the rendering and the return
InstallReturn ==
    /\ pc = "scan"
    /\ subcommand = "install"
    /\ pos > Len(output)
    /\ st' = FlushBlock(st)
    /\ result' = InstallRender(FlushBlock(st))
    /\ pc' = "done"
    /\ UNCHANGED <<subcommand, output, status, stdout, tracked, exit_code, pos>>

\* run_cargo_filtered: println!("{}", filtered)
PrintFiltered ==
    /\ pc = "done"
    /\ stdout' = Append(stdout, result)
    /\ pc' = "printed"
    /\ UNCHANGED <<subcommand, output, status, pos, st, result, tracked, exit_code>>

\* run_cargo_filtered: timer.track(...)
Track ==
    /\ pc = "printed"
    /\ tracked' = Append(tracked, "track")
    /\ pc' = "tracked"
    /\ UNCHANGED <<subcommand, output, status, pos, st, result, stdout, exit_code>>

\* run_passthrough: timer.track_passthrough(...)
TrackPassthrough ==
    /\ pc = "ran"
    /\ tracked' = Append(tracked, "track_passthrough")
    /\ pc' = "tracked"
    /\ UNCHANGED <<subcommand, output, status, pos, st, result, stdout, exit_code>>

\* both wrappers: std::process::exit(status.code().unwrap_or(1))
ExitWithChildCode ==
    /\ pc = "tracked"
    /\ status # 0
    /\ exit_code' = IF status = NoCode THEN 1 ELSE status
    /\ pc' = "exited"
    /\ UNCHANGED <<subcommand, output, status, pos, st, result, stdout, tracked>>

\* both wrappers: Ok(())
ReturnOk ==
    /\ pc = "tracked"
    /\ status = 0
    /\ pc' = "returned"
    /\ UNCHANGED <<subcommand, output, status, pos, st, result, stdout, tracked, exit_code>>

\* both wrappers: the `?` on the Err of Command::output / Command::status
ReturnErr ==
    /\ pc = "spawn_error"
    /\ pc' = "failed"
    /\ UNCHANGED <<subcommand, output, status, pos, st, result, stdout, tracked, exit_code>>

Next ==
    \/ BuildLine
    \/ BuildReturn
    \/ TestLine
    \/ TestReturn
    \/ ClippyLine
    \/ ClippyPanic
    \/ ClippyReturn
    \/ InstallLine
    \/ InstallReturn
    \/ PrintFiltered
    \/ Track
    \/ TrackPassthrough
    \/ ExitWithChildCode
    \/ ReturnOk
    \/ ReturnErr

Spec == Init /\ [][Next]_vars

\* the runs over short inputs, every step of the wrapper being taken: the
\* process runs to its end
WrapperSpec == WrapperInit /\ [][Next]_vars /\ WF_vars(Next)

(***************************************************************************)
(* Reading a rendered summary                                              *)
(***************************************************************************)
\* the number a token spells
NumOf(tok) == CHOOSE n \in 0..(Len(output) + 1) : ToString(n) = tok

IsNumeral(tok) == \E n \in 0..(Len(output) + 1) : ToString(n) = tok

CountLines(t, P(_)) == Cardinality({i \in 1..Len(t) : P(t[i])})

IsWarningStart(l) == StartsWith(l, <<"warning", ":">>) \/ StartsWith(l, <<"warning", "[">>)

IsBlockHead(l) == IsErrorStart(l) \/ IsWarningStart(l)

IsNumberedEntry(l) == Len(l) >= 3 /\ IsNumeral(l[1]) /\ l[2] = "." /\ l[3] = " "

IsTrailer(l, what) == StartsWith(l, <<"...", " ", "+">>) /\ EndsWith(l, <<"more", " ", what>>)

\* the K of the "... +K more <what>" trailer of a summary, 0 when it has none
TrailerCount(t, what) ==
    IF \E i \in 1..Len(t) : IsTrailer(t[i], what)
    THEN NumOf(t[CHOOSE i \in 1..Len(t) : IsTrailer(t[i], what)][4])
    ELSE 0

BuildDone == pc = "done" /\ subcommand \in {"build", "check"}
TestDone == pc = "done" /\ subcommand = "test"
ClippyDone == pc = "done" /\ subcommand = "clippy"
InstallDone == pc = "done" /\ subcommand = "install"

\* the summary is a report with a header, not a one-line success message
BuildReport == BuildDone /\ StartsWith(result[1], <<"cargo", " ", "build", ":">>)
ClippyReport == ClippyDone /\ StartsWith(result[1], <<"cargo", " ", "clippy", ":">>)
InstallReport == InstallDone /\ StartsWith(result[1], <<"cargo", " ", "install", ":">>)
TestReport == TestDone /\ result # << >> /\ StartsWith(result[1], <<"FAILURES", " ", "(">>)

(***************************************************************************)
(* C1                                                                      *)
(***************************************************************************)
\* C1: every filter returns a summary for every input: no filter call ever
\* aborts with a panic.
FilterNeverPanics == pc # "panicked"

(***************************************************************************)
(* C2                                                                      *)
(***************************************************************************)
\* C2: in build/check mode the error count plus the warning count equals the
\* number of diagnostic blocks collected (the open block included while the
\* scan runs), and the counts printed in the header are those of the list.
BuildCountsMatchBlocks ==
    /\ subcommand \in {"build", "check"} =>
           st.error_count + st.warnings
               = Len(st.errors) + (IF st.current_error # << >> /\ pc = "scan" THEN 1 ELSE 0)
    /\ BuildDone /\ ~BuildReport => Len(st.errors) = 0
    /\ BuildReport =>
           NumOf(result[1][6]) + NumOf(result[1][11]) = Len(st.errors)

\* a report over an error block closed by a blank line and a warning block
\* flushed at the end of the input
BuildCountsWitness ==
    /\ BuildReport
    /\ st.error_count = 1 /\ st.warnings = 1
    /\ Len(st.errors) = 2
    /\ Len(st.errors[1]) > BlankCloseMin

(***************************************************************************)
(* C3                                                                      *)
(***************************************************************************)
RECURSIVE SumLocations(_)
SumLocations(rs) ==
    IF rs = << >> THEN 0 ELSE Len(Head(rs).locations) + SumLocations(Tail(rs))

\* C3: in lint mode the error count plus the warning count of the header equals
\* the number of entries collected in the rule groups.
LintCountsMatchEntries ==
    ClippyDone => st.error_count + st.warning_count = SumLocations(st.by_rule)

(***************************************************************************)
(* C4                                                                      *)
(***************************************************************************)
\* C4: in every truncated list the entries rendered plus the K of the
\* "+K more" trailer make the total collected, the trailer is there exactly
\* when the total exceeds the cap, and the header states the untruncated
\* counts.
TruncationIsExact ==
    /\ BuildReport =>
           /\ CountLines(result, IsBlockHead) + TrailerCount(result, "issues")
                  = Len(st.errors)
           /\ (TrailerCount(result, "issues") > 0) <=> (Len(st.errors) > MaxBlocks)
           /\ CountLines(result, IsBlockHead) <= MaxBlocks
           /\ NumOf(result[1][6]) = st.error_count
           /\ NumOf(result[1][11]) = st.warnings
    /\ InstallReport =>
           /\ CountLines(result, IsErrorStart) + TrailerCount(result, "issues")
                  = Len(st.errors)
           /\ (TrailerCount(result, "issues") > 0) <=> (Len(st.errors) > MaxBlocks)
           /\ CountLines(result, IsErrorStart) <= MaxBlocks
           /\ NumOf(result[1][6]) = st.error_count
    /\ TestReport =>
           /\ CountLines(result, IsNumberedEntry) + TrailerCount(result, "failures")
                  = Len(st.failures)
           /\ (TrailerCount(result, "failures") > 0) <=> (Len(st.failures) > MaxFailures)
           /\ CountLines(result, IsNumberedEntry) <= MaxFailures
           /\ NumOf(result[1][4]) = Len(st.failures)

\* a build report cut at the cap, with its trailer
TruncationWitness ==
    /\ BuildReport
    /\ Len(st.errors) > MaxBlocks
    /\ TrailerCount(result, "issues") = Len(st.errors) - MaxBlocks
    /\ CountLines(result, IsBlockHead) = MaxBlocks

(***************************************************************************)
(* C5                                                                      *)
(***************************************************************************)
\* a summary line of the underlying tool
IsToolSummary(l) ==
    \/ StartsWith(l, <<"warning", ":">>) /\ IsGeneratedSummary(l)
    \/ StartsWith(l, <<"error", ":">>) /\ IsAbortSummary(l)

\* C5: in every mode, no summary line of the underlying tool that the input
\* holds appears verbatim as a line of the rendered output.
NoToolSummaryInOutput ==
    pc = "done" =>
        \A i \in 1..Len(result) :
            ~(IsToolSummary(result[i]) /\ \E j \in 1..Len(output) : output[j] = result[i])

(***************************************************************************)
(* C6                                                                      *)
(***************************************************************************)
ProgressVerbs ==
    {<<"Compiling">>, <<"Checking">>, <<"Downloading">>, <<"Downloaded">>, <<"Finished">>,
     <<"Locking">>, <<"Updating">>, <<"Adding">>,
     <<"Blocking", " ", "waiting", " ", "for", " ", "file", " ", "lock">>}

IsProgress(l) == \E v \in ProgressVerbs : StartsWith(TrimStart(l), v)

\* C6: in build/check mode no line that starts, after leading whitespace, with
\* a progress verb appears in the rendered output.
NoProgressInBuildOutput ==
    BuildDone => \A i \in 1..Len(result) : ~IsProgress(result[i])

(***************************************************************************)
(* C7, C8                                                                  *)
(***************************************************************************)
IsRuleLine(l) ==
    Len(l) >= 7 /\ l[1] = " " /\ l[2] = " " /\ l[3] # " " /\ EndsWith(l, <<"x)">>)
    /\ l[Len(l) - 2] = "(" /\ IsNumeral(l[Len(l) - 1])

RECURSIVE RuleLines(_)
\* the rule lines of a lint report, in rendering order
RuleLines(t) ==
    IF t = << >> THEN << >>
    ELSE (IF IsRuleLine(Head(t)) THEN <<Head(t)>> ELSE << >>) \o RuleLines(Tail(t))

RenderedRule(l) == SubSeq(l, 3, Len(l) - 4)

RenderedCount(l) == NumOf(l[Len(l) - 1])

\* the rank of a rule in the order in which the rules were first seen
FirstSeen(rule) == CHOOSE i \in 1..Len(st.by_rule) : st.by_rule[i].rule = rule

\* C7: in lint mode two rules with the same occurrence count are rendered in
\* the order in which they were first seen in the input.
TiesInFirstSeenOrder ==
    ClippyReport =>
        LET rl == RuleLines(result)
        IN  \A i, j \in 1..Len(rl) :
                i < j /\ RenderedCount(rl[i]) = RenderedCount(rl[j])
                    => FirstSeen(RenderedRule(rl[i])) < FirstSeen(RenderedRule(rl[j]))

\* C8: in lint mode the rendered rules are in non-increasing order of their
\* occurrence count, and no rule cut off by the cap has a count greater than
\* that of a rendered rule.
RulesByDescendingCount ==
    ClippyReport =>
        LET rl == RuleLines(result)
            rendered == {RenderedRule(rl[i]) : i \in 1..Len(rl)}
        IN  /\ \A i, j \in 1..Len(rl) :
                   i < j => RenderedCount(rl[i]) >= RenderedCount(rl[j])
            /\ \A k \in 1..Len(st.by_rule) :
                   st.by_rule[k].rule \notin rendered
                       => \A i \in 1..Len(rl) :
                              Len(st.by_rule[k].locations) <= RenderedCount(rl[i])
            /\ Len(rl) = IF Len(st.by_rule) > MaxRules THEN MaxRules ELSE Len(st.by_rule)

\* a report cut at the rule cap whose first rule was the last one seen
DescendingCountWitness ==
    /\ ClippyReport
    /\ Len(st.by_rule) > MaxRules
    /\ LET rl == RuleLines(result)
       IN  /\ Len(rl) = MaxRules
           /\ RenderedCount(rl[1]) > RenderedCount(rl[MaxRules])
           /\ FirstSeen(RenderedRule(rl[1])) = Len(st.by_rule)

(***************************************************************************)
(* C9                                                                      *)
(***************************************************************************)
RECURSIVE TestResults(_)
\* the lines of a text that start with "test result:", in order
TestResults(t) ==
    IF t = << >> THEN << >>
    ELSE (IF IsTestResult(Head(t)) THEN <<Head(t)>> ELSE << >>) \o TestResults(Tail(t))

\* C9: in test mode every line read that starts with "test result:" is held
\* exactly once in the summary lines, in input order, and such a line leaves
\* the scanner outside the failure region.
ResultLinesCapturedOnce ==
    subcommand = "test" =>
        /\ st.summary_lines = TestResults(SubSeq(output, 1, pos - 1))
        /\ pos > 1 /\ IsTestResult(output[pos - 1]) => ~st.in_failure_section

(***************************************************************************)
(* C10                                                                     *)
(***************************************************************************)
IsPassingTest(l) == StartsWith(l, <<"test", " ">>) /\ EndsWith(l, <<"...", " ", "ok">>)

\* C10: in test mode the input of the repository's failure test (one failing
\* test, a final "test result: FAILED." line) yields "FAILURES (1):" and the
\* result line, and no passing-test line.
OneFailureReported ==
    TestDone /\ output = TestFailuresInput =>
        /\ \E i \in 1..Len(result) : result[i] = <<"FAILURES", " ", "(", "1", ")", ":">>
        /\ \E i \in 1..Len(result) : result[i] = LResultFailed
        /\ \A i \in 1..Len(result) : ~IsPassingTest(result[i])

(***************************************************************************)
(* C11                                                                     *)
(***************************************************************************)
IsTestProgress(l) ==
    \/ StartsWith(TrimStart(l), <<"Compiling">>)
    \/ StartsWith(TrimStart(l), <<"Downloading">>)
    \/ StartsWith(TrimStart(l), <<"Downloaded">>)
    \/ StartsWith(TrimStart(l), <<"Finished">>)

RECURSIVE NonBlankNonProgress(_)
\* the lines of a text that are neither blank nor progress lines, in order
NonBlankNonProgress(t) ==
    IF t = << >> THEN << >>
    ELSE (IF ~IsBlank(Head(t)) /\ ~IsTestProgress(Head(t)) THEN <<Head(t)>> ELSE << >>)
         \o NonBlankNonProgress(Tail(t))

\* C11: in test mode, when no summary line and no failure block was collected,
\* the output is the last 5 lines of the input that are neither blank nor
\* progress lines, in their original order (up to the final trim of the text).
FallbackIsTail ==
    TestDone /\ st.summary_lines = << >> /\ st.failures = << >> =>
        result = TrimText(LastLines(NonBlankNonProgress(output), TailLines))

(***************************************************************************)
(* C12                                                                     *)
(***************************************************************************)
\* the subcommand a build/check summary names
NamedSubcommand(t) == IF t[1][1] = "*" THEN t[1][5] ELSE t[1][3]

\* C12: the templates rendered for the check subcommand name "check", those
\* rendered for the build subcommand name "build".
TemplateNamesSubcommand == BuildDone => NamedSubcommand(result) = subcommand

(***************************************************************************)
(* C13                                                                     *)
(***************************************************************************)
\* the progress verbs other than "Finished"
UnitVerbs == ProgressVerbs \ {<<"Finished">>}

IsUnitProgress(l) == \E v \in UnitVerbs : StartsWith(TrimStart(l), v)

IsCompiledUnit(l) ==
    StartsWith(TrimStart(l), <<"Compiling">>) \/ StartsWith(TrimStart(l), <<"Checking">>)

\* the input holds progress lines and "Finished" lines only
OnlyProgress == \A i \in 1..Len(output) : IsProgress(output[i])

SuccessLine(n) ==
    <<"*", " ", "cargo", " ", "build", " ", "(", Num(n), " ", "crates", " ", "compiled",
      ")">>

\* C13 as stated: for a build/check input of progress and "Finished" lines
\* only, the output is the success line with N the number of progress-verb
\* lines of the input.
SuccessCountsProgressLines ==
    BuildDone /\ OnlyProgress =>
        result = <<SuccessLine(CountLines(output, IsUnitProgress))>>

\* C13 as amended: N is the number of lines that start with Compiling or
\* Checking.
SuccessCountsCompiledUnits ==
    BuildDone /\ OnlyProgress =>
        result = <<SuccessLine(CountLines(output, IsCompiledUnit))>>

\* a success line over an input that holds counted and uncounted progress lines
SuccessCountWitness ==
    /\ BuildDone /\ OnlyProgress
    /\ CountLines(output, IsCompiledUnit) >= 2
    /\ CountLines(output, IsUnitProgress) > CountLines(output, IsCompiledUnit)
    /\ \E i \in 1..Len(output) : StartsWith(TrimStart(output[i]), <<"Finished">>)

(***************************************************************************)
(* C14                                                                     *)
(***************************************************************************)
IsIgnoredLine(l) == StartsWith(TrimStart(l), <<"Ignored", " ", "package">>)

IsCountedError(l) == IsErrorStart(l) /\ ~IsAbortSummary(l)

IsAlreadyInstalledLine(l) ==
    StartsWith(l, <<"*", " ", "cargo", " ", "install", ":", " ">>)
    /\ EndsWith(l, <<" ", "already", " ", "installed">>)

IsInstallErrorHeader(l, e) ==
    StartsWith(l, <<"cargo", " ", "install", ":", " ", Num(e), " ">>)
    /\ Len(l) >= 8 /\ l[8] \in {"error", "errors"}

IsInstallSuccessLine(l) == StartsWith(l, <<"*", " ", "cargo", " ", "install", " ", "(">>)

\* C14: install mode renders exactly one of its three templates, chosen by a
\* fixed priority over the whole input: the "already installed" line if any
\* "Ignored package" line was read (even with errors collected), else the
\* report headed "cargo install: <E> error(s)" if an error was counted, else
\* the success line.
InstallResolutionOrder ==
    InstallDone =>
        LET e == CountLines(output, IsCountedError)
            ignored == \E i \in 1..Len(output) : IsIgnoredLine(output[i])
            a == IsAlreadyInstalledLine(result[1])
            b == IsInstallErrorHeader(result[1], e)
            c == IsInstallSuccessLine(result[1])
        IN  /\ result # << >>
            /\ ignored => a /\ ~b /\ ~c /\ Len(result) = 1
            /\ ~ignored /\ e > 0 => b /\ ~a /\ ~c
            /\ ~ignored /\ e = 0 => c /\ ~a /\ ~b

\* an "Ignored package" line read before an error block, resolved as
\* already installed
InstallResolutionWitness ==
    /\ InstallDone
    /\ \E i, j \in 1..Len(output) :
          i < j /\ IsIgnoredLine(output[i]) /\ IsCountedError(output[j])
    /\ IsAlreadyInstalledLine(result[1])

(***************************************************************************)
(* C15                                                                     *)
(***************************************************************************)
\* what follows the verb of an "Installing" line
InstallingRest(l) == Trim(StripPrefix(TrimStart(l), <<"Installing">>))

\* an "Installing" line that names a crate (not a path-based install)
NamesCrate(l) ==
    /\ StartsWith(TrimStart(l), <<"Installing">>)
    /\ InstallingRest(l) # << >>
    /\ ~StartsWith(InstallingRest(l), <<"/">>)

IsReplaceLine(l) ==
    StartsWith(TrimStart(l), <<"Replacing">>) \/ StartsWith(TrimStart(l), <<"Replaced">>)

IsActionableWarning(l) == StartsWith(l, <<"warning", ":">>) /\ ~IsGeneratedSummary(l)

RECURSIVE CollectedLines(_)
CollectedLines(t) ==
    IF t = << >> THEN << >>
    ELSE (IF IsReplaceLine(Head(t)) THEN <<TrimStart(Head(t))>>
          ELSE IF IsActionableWarning(Head(t)) THEN <<Head(t)>>
          ELSE << >>) \o CollectedLines(Tail(t))

\* the name and version an input's "Installing" lines can resolve to
ClaimedCrateInfo(t) ==
    IF \E i \in 1..Len(t) : NamesCrate(t[i])
    THEN {InstallingRest(t[i]) : i \in {j \in 1..Len(t) : NamesCrate(t[j])}}
    ELSE {<<"package">>}

\* C15: in install mode, for an input with no "Ignored package" line and no
\* error, the output is the success line "(<crate-info>, <C> deps compiled)",
\* C being the number of Compiling lines and crate-info the name and version
\* of the Installing line ("package" when none was resolved), followed by the
\* Replacing/Replaced lines and actionable warnings, each indented by two
\* spaces, in input order.
InstallSuccessLine ==
    InstallDone /\ (\A i \in 1..Len(output) : ~IsIgnoredLine(output[i]))
                /\ CountLines(output, IsCountedError) = 0 =>
        LET c == CountLines(output, LAMBDA l : StartsWith(TrimStart(l), <<"Compiling">>))
            kept == CollectedLines(output)
        IN  \E info \in ClaimedCrateInfo(output) :
                result = << <<"*", " ", "cargo", " ", "install", " ", "(">> \o info
                            \o <<",", " ", Num(c), " ", "deps", " ", "compiled", ")">> >>
                         \o [i \in 1..Len(kept) |-> <<" ", " ">> \o kept[i]]

(***************************************************************************)
(* C16                                                                     *)
(***************************************************************************)
InstallNoiseVerbs ==
    {<<"Downloading">>, <<"Downloaded">>, <<"Locking">>, <<"Updating">>, <<"Adding">>,
     <<"Finished">>,
     <<"Blocking", " ", "waiting", " ", "for", " ", "file", " ", "lock">>}

IsInstallNoise(l) == \E v \in InstallNoiseVerbs : StartsWith(TrimStart(l), v)

\* C16: in install mode a line starting, after leading whitespace, with
\* Downloading, Downloaded, Locking, Updating, Adding, Finished or "Blocking
\* waiting for file lock" leaves every accumulator as it was, in every state
\* of the scanner, and no such line is in the rendered output.
InstallNoiseDiscarded ==
    [][ /\ (subcommand = "install" /\ pc = "scan" /\ pos <= Len(output)
            /\ IsInstallNoise(output[pos])) => st' = st
        /\ (subcommand = "install" /\ pc' = "done") =>
               \A i \in 1..Len(result') : ~IsInstallNoise(result'[i]) ]_vars

\* a noise line has just been read while an error block was open
InstallNoiseWitness ==
    /\ subcommand = "install" /\ pc = "scan" /\ pos > 1
    /\ IsInstallNoise(output[pos - 1])
    /\ st.in_error /\ st.current_error # << >>

(***************************************************************************)
(* C19                                                                     *)
(***************************************************************************)
\* the list of collected blocks of the running filter (lint mode has none)
CollectedBlocks ==
    IF subcommand \in {"build", "check", "install"} THEN st.errors
    ELSE IF subcommand = "test" THEN st.failures
    ELSE << >>

\* C19: every error block (build/check, install) and every failure block
\* (test) in the block list holds at least one line, during the scan and
\* after the final flush.
BlocksNeverEmpty ==
    \A i \in 1..Len(CollectedBlocks) : Len(CollectedBlocks[i]) >= 1

\* two blank lines in a row were read in the failure section of a test run
\* after a failure block had been collected
BlocksNeverEmptyWitness ==
    /\ subcommand = "test" /\ pc = "scan" /\ pos > 2
    /\ IsBlank(output[pos - 1]) /\ IsBlank(output[pos - 2])
    /\ st.in_failure_section
    /\ st.failures # << >>

(***************************************************************************)
(* C20                                                                     *)
(***************************************************************************)
\* a summary with a header: the report of any of the four filters
AnyReport == BuildReport \/ InstallReport \/ ClippyReport \/ TestReport

IsSeparatorOf(l, n) == Len(l) = n /\ \A i \in 1..Len(l) : l[i] = "="

\* C20 as stated: the line under the header of every report (build/check,
\* install errors, test failures, lint) is made of exactly 41 separator
\* characters.
SeparatorIs41Wide ==
    AnyReport => Len(result) >= 2 /\ IsSeparatorOf(result[2], 41)

\* C20 as amended: the line under the header of every report is made of
\* exactly 39 separator characters.
SeparatorIs39Wide ==
    AnyReport => Len(result) >= 2 /\ IsSeparatorOf(result[2], 39)

\* a test report: the header "FAILURES (n):" with the separator under it
SeparatorWitness ==
    TestReport /\ Len(result) >= 3 /\ IsSeparatorOf(result[2], 39)

(***************************************************************************)
(* C18                                                                     *)
(***************************************************************************)
\* `for line in text.lines()` of each filter, from state s over the lines of
\* t; the text is read half by half, the state after the first half being
\* computed (half = half) before the second half is read
RECURSIVE BuildScan(_, _)
BuildScan(s, t) ==
    IF t = << >> THEN s
    ELSE IF Len(t) = 1 THEN BuildStep(s, t[1])
    ELSE LET half == BuildScan(s, SubSeq(t, 1, Len(t) \div 2))
         IN  IF half = half
             THEN BuildScan(half, SubSeq(t, Len(t) \div 2 + 1, Len(t)))
             ELSE half

RECURSIVE InstallScan(_, _)
InstallScan(s, t) ==
    IF t = << >> THEN s
    ELSE IF Len(t) = 1 THEN InstallStep(s, t[1])
    ELSE LET half == InstallScan(s, SubSeq(t, 1, Len(t) \div 2))
         IN  IF half = half
             THEN InstallScan(half, SubSeq(t, Len(t) \div 2 + 1, Len(t)))
             ELSE half

RECURSIVE TestScan(_, _)
TestScan(s, t) ==
    IF t = << >> THEN s
    ELSE IF Len(t) = 1 THEN TestStep(s, t[1])
    ELSE LET half == TestScan(s, SubSeq(t, 1, Len(t) \div 2))
         IN  IF half = half
             THEN TestScan(half, SubSeq(t, Len(t) \div 2 + 1, Len(t)))
             ELSE half

\* (no line of t making the slice panic)
RECURSIVE ClippyScan(_, _)
ClippyScan(s, t) ==
    IF t = << >> THEN s
    ELSE IF Len(t) = 1 THEN ClippyStep(s, t[1])
    ELSE LET half == ClippyScan(s, SubSeq(t, 1, Len(t) \div 2))
         IN  IF half = half
             THEN ClippyScan(half, SubSeq(t, Len(t) \div 2 + 1, Len(t)))
             ELSE half

\* the number of diagnostics a filter holds after it has read text t
BuildDiagnostics(t) ==
    LET s == FlushBlock(BuildScan(BuildInit, t))
    IN  s.error_count + s.warnings

InstallDiagnostics(t) == FlushBlock(InstallScan(InstallInit, t)).error_count

TestDiagnostics(t) == Len(FlushFailure(TestScan(TestInit, t)).failures)

ClippyDiagnostics(t) ==
    LET s == ClippyScan(ClippyInit, t)
    IN  s.error_count + s.warning_count

\* C18: the rendered output of a filter, fed back to the same filter as raw
\* input, is read without failure and yields a number of diagnostics (errors
\* + warnings in build/check, install and lint mode, failures in test mode)
\* that is at most the number of the first run.
RefilteringAddsNoDiagnostic ==
    pc = "done" =>
        CASE subcommand \in {"build", "check"} ->
                 BuildDiagnostics(result) <= BuildDiagnostics(output)
          [] subcommand = "install" ->
                 InstallDiagnostics(result) <= InstallDiagnostics(output)
          [] subcommand = "test" ->
                 TestDiagnostics(result) <= TestDiagnostics(output)
          [] subcommand = "clippy" ->
                 /\ \A i \in 1..Len(result) : ~ClippyPanics(result[i])
                 /\ ClippyDiagnostics(result) <= ClippyDiagnostics(output)

(***************************************************************************)
(* C17                                                                     *)
(***************************************************************************)
\* the summary was printed (a passthrough has none) and the entry recorded
Reported ==
    /\ Len(tracked) = 1
    /\ subcommand # Passthrough => stdout = <<result>>

\* C17: whenever the child ends unsuccessfully with exit code c, the wrapper
\* prints the summary, records the tracking entry and then ends the process
\* with exit code c, whatever the summary says; when the child succeeds the
\* wrapper returns normally.
ExitMirrorsChild ==
    /\ (status > 0) ~> (pc = "exited" /\ exit_code = status /\ Reported)
    /\ (status = 0) ~> (pc = "returned" /\ Reported)

(***************************************************************************)
(* C21                                                                     *)
(***************************************************************************)
\* a line the build/check scanner skips before it looks at the open block
IsBuildSkipped(l) ==
    \/ \E v \in {<<"Compiling">>, <<"Checking">>, <<"Downloading">>, <<"Downloaded">>,
                 <<"Finished">>} : StartsWith(TrimStart(l), v)
    \/ IsErrorStart(l) /\ IsAbortSummary(l)
    \/ StartsWith(l, <<"warning", ":">>) /\ IsGeneratedSummary(l)

\* a line that starts a new diagnostic in build/check mode
StartsDiagnostic(l) == IsBlockHead(l) /\ ~IsBuildSkipped(l)

\* C21: in the build/check scanner a blank line read while a block is open
\* closes the block (appended to the list, scanner idle) if and only if the
\* block holds more than 3 lines; otherwise the blank line is appended and the
\* block stays open; a later line that is neither skipped nor a diagnostic
\* start is appended to it; during the scan only a blank line after more than
\* 3 lines or a new diagnostic closes a block.
BlankClosesLongBlock ==
    [][ (subcommand \in {"build", "check"} /\ pc = "scan" /\ pos <= Len(output)
         /\ st.in_error) =>
          LET line == output[pos]
              closed == /\ st'.errors = Append(st.errors, st.current_error)
                        /\ st'.current_error = << >>
                        /\ ~st'.in_error
              appended == /\ st'.errors = st.errors
                          /\ st'.current_error = Append(st.current_error, line)
                          /\ st'.in_error
          IN  /\ IsBlank(line) /\ Len(st.current_error) > 3 => closed
              /\ IsBlank(line) /\ Len(st.current_error) <= 3 => appended
              /\ ~IsBlank(line) /\ ~IsBuildSkipped(line) /\ ~StartsDiagnostic(line)
                    => appended
              /\ st'.errors # st.errors =>
                    \/ IsBlank(line) /\ Len(st.current_error) > 3
                    \/ StartsDiagnostic(line)
              /\ ~st'.in_error => IsBlank(line) /\ Len(st.current_error) > 3 ]_vars

\* a block that took two blank lines while short has just been closed by a
\* third one
BlankCloseWitness ==
    /\ subcommand = "build" /\ pc = "scan" /\ pos > 1
    /\ IsBlank(output[pos - 1])
    /\ ~st.in_error
    /\ st.errors # << >>
    /\ LET block == st.errors[Len(st.errors)]
       IN  Len(block) > 3 /\ IsBlank(block[3]) /\ IsBlank(block[4])

(***************************************************************************)
(* C22                                                                     *)
(***************************************************************************)
\* the blocks of a block list that an error line opened
ErrorSeverity(blocks) == SelectSeq(blocks, LAMBDA b : IsErrorStart(b[1]))

\* C22: for any input, the ordered list of error blocks collected by the
\* install scanner equals the ordered list of error-severity blocks the
\* build/check scanner collects on the same input.
InstallBlocksAsBuild ==
    InstallDone => st.errors = ErrorSeverity(FlushBlock(BuildScan(BuildInit, output)).errors)

(***************************************************************************)
(* C23                                                                     *)
(***************************************************************************)
\* a diagnostic-start line the lint scanner counts
IsCountedLint(l) ==
    /\ ~IsProgress(l)
    /\ IsDiagnosticStart(l)
    /\ ~IsGeneratedSummary(l)
    /\ ~IsAbortSummary(l)

\* positions of the closing brackets that have an opening bracket before them
ClosedAt(l) == {j \in 1..Len(l) : l[j] = "]" /\ \E i \in 1..(j - 1) : l[i] = "["}

\* the content of the last bracketed segment of a line that has one
LastSegment(l) ==
    LET close == CHOOSE j \in ClosedAt(l) : \A k \in ClosedAt(l) : k <= j
        open == CHOOSE i \in 1..(close - 1) :
                    l[i] = "[" /\ \A k \in (i + 1)..(close - 1) : l[k] # "["
    IN  SubSeq(l, open + 1, close - 1)

\* the rule identifier the claim gives a counted diagnostic-start line
ClaimedRule(l) ==
    IF ClosedAt(l) # {} THEN LastSegment(l)
    ELSE StripPrefix(l, IF StartsWith(l, <<"error">>)
                        THEN <<"error", ":", " ">> ELSE <<"warning", ":", " ">>)

\* the locations recorded under a rule, << >> when the map has no such rule
LocationsOf(by_rule, rule) ==
    IF \E i \in 1..Len(by_rule) : by_rule[i].rule = rule
    THEN (CHOOSE e \in {by_rule[i] : i \in 1..Len(by_rule)} : e.rule = rule).locations
    ELSE << >>

\* C23: in lint mode the rule identifier of a counted diagnostic-start line is
\* the content of its last bracketed segment when it has one, and otherwise
\* the message text after the "error: " / "warning: " prefix; a following
\* "--> " line is recorded, in order, under that identifier.
RuleIsLastBracketOrMessage ==
    [][ (subcommand = "clippy" /\ pc = "scan" /\ pc' = "scan" /\ pos <= Len(output)) =>
          LET line == output[pos]
          IN  /\ IsCountedLint(line) => st'.current_rule = ClaimedRule(line)
              /\ (~IsProgress(line) /\ ~IsDiagnosticStart(line)
                  /\ StartsWith(TrimStart(line), <<"-->", " ">>)
                  /\ st.current_rule # << >>) =>
                    LocationsOf(st'.by_rule, st.current_rule) =
                        Append(LocationsOf(st.by_rule, st.current_rule),
                               TrimStartMatches(TrimStart(line), <<"-->", " ">>)) ]_vars

(***************************************************************************)
(* C24                                                                     *)
(***************************************************************************)
HasSuccessMark(l) == StartsWith(l, <<"*">>)

IsFailedResult(l) == StartsWith(l, <<"test", " ", "result", ":", " ", "FAILED.">>)

\* C24: in test mode a summary line carries the success mark only if it
\* reports success, and when the input holds a "test result: FAILED" line no
\* output line starts with the success mark.
SuccessMarkMatchesVerdict ==
    TestDone =>
        /\ \A i \in 1..Len(result) :
               HasSuccessMark(result[i]) =>
                   StartsWith(result[i], <<"*", " ", "test", " ", "result", ":", " ", "ok.">>)
        /\ (\E j \in 1..Len(output) : IsFailedResult(output[j])) =>
               \A i \in 1..Len(result) : ~HasSuccessMark(result[i])

(***************************************************************************)
(* C25                                                                     *)
(***************************************************************************)
\* the lines the install scanner has read
LinesRead == 1..(IF pos - 1 < Len(output) THEN pos - 1 ELSE Len(output))

\* C25: in install mode the crate name and the crate version held by the
\* scanner were both taken from one and the same input line: some line read
\* so far yields, on its own, exactly this name and this version.
CrateInfoFromOneLine ==
    subcommand = "install" /\ st.installed_crate # << >> =>
        \E i \in LinesRead :
            LET alone == InstallStep(InstallInit, output[i])
            IN  /\ alone.installed_crate = st.installed_crate
                /\ alone.installed_version = st.installed_version

=============================================================================
